---- MODULE Spec2Model ----
(***************************************************************************)
(* One recomputation pass of the pivot dashboard (src/app.py): load the    *)
(* input, read the pivot widgets, filter, validate, pivot, project for the *)
(* chart tab, augment for the data tab.                                    *)
(*                                                                         *)
(* Representation.                                                         *)
(*  - A string is the sequence of its underscore-free segments:            *)
(*    "net_sales" is <<"net", "sales">>.  '_'.join is concatenation and    *)
(*    s.split("_")[-1] is the last segment.                                *)
(*  - A numeric cell is an integer; NaN is the integer NaN, outside the    *)
(*    value domain.  Cells of a pivoted table hold Scale times the pandas  *)
(*    value, so that a mean over at most MaxRows values is exact.          *)
(*  - A data frame is [columns, kinds, rows]: column names (duplicates are *)
(*    possible, as in pandas), the dtype class of each column, and the     *)
(*    rows as sequences of cells aligned with the columns.                 *)
(***************************************************************************)
EXTENDS Integers, Sequences, FiniteSets, TLC

\* ------------------------------------------------------------------ bounds
MaxRows == 2

MaxLoadRows == 3

\* ------------------------------------------------------------- string model
NA == <<"NaN">>
NaN == -1

Atoms == <<"E", "N", "W", "net", "qty", "region", "sales", "sub">>

AtomRank(a) == CHOOSE i \in 1..Len(Atoms) : Atoms[i] = a

RECURSIVE StrLess(_, _)
StrLess(s, t) ==
    IF s = <<>> THEN t # <<>>
    ELSE IF t = <<>> THEN FALSE
    ELSE IF Head(s) = Head(t) THEN StrLess(Tail(s), Tail(t))
    ELSE AtomRank(Head(s)) < AtomRank(Head(t))

RECURSIVE TupleLess(_, _)
TupleLess(a, b) ==
    IF a = <<>> THEN b # <<>>
    ELSE IF b = <<>> THEN FALSE
    ELSE IF Head(a) = Head(b) THEN TupleLess(Tail(a), Tail(b))
    ELSE StrLess(Head(a), Head(b))

RECURSIVE SortTuples(_)
SortTuples(S) ==
    IF S = {} THEN <<>>
    ELSE LET m == CHOOSE x \in S : \A y \in S \ {x} : TupleLess(x, y)
         IN  <<m>> \o SortTuples(S \ {m})

RECURSIVE Join(_)
Join(c) == IF c = <<>> THEN <<>> ELSE Head(c) \o Join(Tail(c))

\* ------------------------------------------------------------ small helpers
RECURSIVE SumSeq(_)
SumSeq(s) == IF s = <<>> THEN 0 ELSE Head(s) + SumSeq(Tail(s))

RECURSIVE Factorial(_)
Factorial(n) == IF n <= 1 THEN 1 ELSE n * Factorial(n - 1)

Scale == Factorial(MaxRows)

Indices(n) == [i \in 1..n |-> i]

Range(s) == {s[i] : i \in 1..Len(s)}

Contains(s, x) == \E i \in 1..Len(s) : s[i] = x

\* ------------------------------------------------------------------- input
DfColumns == << <<"region">>, <<"sub", "region">>, <<"sales">>, <<"net", "sales">>, <<"qty">> >>

DfKinds == <<"object", "object", "number", "number", "number">>

RowPool ==
    { << <<"W">>, <<"E">>,      1,   3,   1 >>,
      << <<"E">>, <<"N", "E">>, 2,   3,   1 >>,
      << <<"E">>, <<"E">>,      NaN, 3,   2 >>,
      << NA,      <<"E">>,      2,   NaN, 1 >>,
      << <<"W">>, <<"W">>,      2,   1,   1 >> }

RECURSIVE SeqsUpTo(_, _)
SeqsUpTo(S, n) ==
    IF n = 0 THEN {<<>>}
    ELSE LET prev == SeqsUpTo(S, n - 1)
         IN  prev \cup {Append(s, x) : s \in {p \in prev : Len(p) = n - 1}, x \in S}

NoFile == [rows |-> <<>>, present |-> FALSE]

Files == {NoFile} \cup {[rows |-> r, present |-> TRUE] : r \in SeqsUpTo(RowPool, MaxRows)}

\* Pasted text: blank (nothing but white space), or a header line and one
\* line per row, the fields separated by sep; ragged when some line has more
\* fields than the header.
NoText == [blank |-> TRUE, sep |-> "tab", ragged |-> FALSE, rows |-> <<>>]

\* pd.read_csv(StringIO(text), sep=sep): a tokenizing error on a ragged text
\* read with its own separator; with the other separator every line is one
\* field, a frame of a single column
read_csv(text, sep) ==
    IF sep = text.sep
    THEN [raised |-> text.ragged, ncols |-> Len(DfColumns), rows |-> text.rows]
    ELSE [raised |-> FALSE, ncols |-> 1,
          rows |-> [i \in 1..Len(text.rows) |-> <<text.rows[i]>>]]

\* the frame the paste branch deduplicates: tab-separated first, comma-
\* separated when that gives a single column
ParsePasted(text) ==
    IF read_csv(text, "tab").raised THEN read_csv(text, "tab")
    ELSE IF read_csv(text, "tab").ncols = 1 THEN read_csv(text, "comma")
    ELSE read_csv(text, "tab")

\* the pasted texts of up to n rows
Texts(n) ==
    {NoText} \cup
    {[blank |-> FALSE, sep |-> s, ragged |-> g, rows |-> r] :
        s \in {"tab", "comma"}, g \in BOOLEAN, r \in SeqsUpTo(RowPool, n)}

ColIdx(name) == CHOOSE i \in 1..Len(DfColumns) : DfColumns[i] = name

\* a deduplication that keeps the last occurrence of every row (keep="last")
drop_duplicatesKeepLast(rows) ==
    LET keep(i) == \A j \in (i + 1)..Len(rows) : rows[j] # rows[i]
        kept    == SelectSeq(Indices(Len(rows)), keep)
    IN  [k \in 1..Len(kept) |-> rows[kept[k]]]

\* df.drop_duplicates(): keep the first occurrence of every row
drop_duplicates(rows) ==
    LET keep(i) == \A j \in 1..(i - 1) : rows[j] # rows[i]
        kept    == SelectSeq(Indices(Len(rows)), keep)
    IN  [k \in 1..Len(kept) |-> rows[kept[k]]]

\* ------------------------------------------------------------ pivot engine
KeyOf(row, fields) == [i \in 1..Len(fields) |-> row[ColIdx(fields[i])]]

HasNA(key) == \E i \in 1..Len(key) : key[i] = NA

MaxOf(s) == CHOOSE x \in Range(s) : \A y \in Range(s) : y <= x

MinOf(s) == CHOOSE x \in Range(s) : \A y \in Range(s) : x <= y

\* a reduction whose count is the size of the group (len), NaN cells included
AggregateCountsRows(aggfunc, vals) ==
    LET nn == SelectSeq(vals, LAMBDA v : v # NaN)
    IN  CASE aggfunc = "sum"   -> Scale * SumSeq(nn)
          [] aggfunc = "count" -> Scale * Len(vals)
          [] aggfunc = "mean"  -> IF nn = <<>> THEN NaN ELSE (Scale * SumSeq(nn)) \div Len(nn)
          [] aggfunc = "max"   -> IF nn = <<>> THEN NaN ELSE Scale * MaxOf(nn)
          [] aggfunc = "min"   -> IF nn = <<>> THEN NaN ELSE Scale * MinOf(nn)

\* A pandas reduction of one value column over one group; NaN cells are
\* skipped.  The result is Scale times the pandas value.
Aggregate(aggfunc, vals) ==
    LET nn == SelectSeq(vals, LAMBDA v : v # NaN)
    IN  CASE aggfunc = "sum"   -> Scale * SumSeq(nn)
          [] aggfunc = "count" -> Scale * Len(nn)
          [] aggfunc = "mean"  -> IF nn = <<>> THEN NaN ELSE (Scale * SumSeq(nn)) \div Len(nn)
          [] aggfunc = "max"   -> IF nn = <<>> THEN NaN ELSE Scale * MaxOf(nn)
          [] aggfunc = "min"   -> IF nn = <<>> THEN NaN ELSE Scale * MinOf(nn)

\* data.groupby(keys, sort=True, dropna=True): rows with a missing key are
\* left out
GroupMembers(data, keys) == SelectSeq(data, LAMBDA r : ~HasNA(KeyOf(r, keys)))

\* a grouping that sorts its keys downwards
RECURSIVE GroupOrderDescending(_)
GroupOrderDescending(S) ==
    IF S = {} THEN <<>>
    ELSE LET m == CHOOSE x \in S : \A y \in S \ {x} : TupleLess(y, x)
         IN  <<m>> \o GroupOrderDescending(S \ {m})

\* the order of the group keys in the aggregated index (sort=True)
GroupOrder(S) == SortTuples(S)

\* one aggregated cell of grouped.agg(aggfunc)
AggCell(data, keys, k, v, aggfunc) ==
    LET members == SelectSeq(GroupMembers(data, keys), LAMBDA r : KeyOf(r, keys) = k)
    IN  Aggregate(aggfunc, [i \in 1..Len(members) |-> members[i][ColIdx(v)]])

\* agged.dropna(how="all"): the groups that keep at least one non-NaN value
KeptGroups(data, keys, values, aggfunc) ==
    LET live == GroupMembers(data, keys)
    IN  {k \in {KeyOf(live[i], keys) : i \in 1..Len(live)} :
            \E j \in 1..Len(values) : AggCell(data, keys, k, values[j], aggfunc) # NaN}

\* ['_'.join(map(str, c)) for c in pivot_df.columns] on a MultiIndex; a plain
\* Index (no column fields) keeps the value field's name
FlatName(c, columns) == IF columns # <<>> THEN Join(c) ELSE c[1]

\* pd.pivot_table(data, index, columns, values, aggfunc, fill_value=0),
\* flattened, followed by reset_index()
pivot_table(data, index, columns, values, aggfunc) ==
    LET keys  == index \o columns
        n     == Len(index)
        kept  == KeptGroups(data, keys, values, aggfunc)
        rkeys == GroupOrder({SubSeq(k, 1, n) : k \in kept})
        ckeys == {SubSeq(k, n + 1, Len(keys)) : k \in kept}
        \* table.sort_index(axis=1): (value field, column key) in sorted order
        ctups == SortTuples({<<values[j]>> \o ck : j \in 1..Len(values), ck \in ckeys})
        cell(rk, ct) ==
            LET k == rk \o Tail(ct)
            IN  IF k \in kept
                THEN LET a == AggCell(data, keys, k, ct[1], aggfunc)
                     IN  IF a = NaN THEN 0 ELSE a
                ELSE 0
    IN  [columns |-> index \o [j \in 1..Len(ctups) |-> FlatName(ctups[j], columns)],
         kinds   |-> [j \in 1..n |-> "object"] \o [j \in 1..Len(ctups) |-> "number"],
         rows    |-> [i \in 1..Len(rkeys) |->
                        rkeys[i] \o [j \in 1..Len(ctups) |-> cell(rkeys[i], ctups[j])]]]

\* ---------------------------------------------------------- chart projector
\* plot_cols = [c for c in pivot_df.columns if c not in row_cols], as positions
PlotCols(frame, id_vars) ==
    SelectSeq(Indices(Len(frame.columns)), LAMBDA j : ~Contains(id_vars, frame.columns[j]))

IdCols(frame, id_vars) ==
    [i \in 1..Len(id_vars) |-> CHOOSE j \in 1..Len(frame.columns) : frame.columns[j] = id_vars[i]]

\* a melt over value_vars = plot_cols[1:], the first value column left out
meltSkipsFirst(frame, id_vars) ==
    LET all == PlotCols(frame, id_vars)
        pc0 == SubSeq(all, 2, Len(all))
        ic  == IdCols(frame, id_vars)
        N   == Len(frame.rows)
    IN  [p \in 1..(N * Len(pc0)) |->
            LET j == ((p - 1) \div N) + 1
                k == ((p - 1) % N) + 1
            IN  [id     |-> [i \in 1..Len(ic) |-> frame.rows[k][ic[i]]],
                 Metric |-> frame.columns[pc0[j]],
                 Val    |-> frame.rows[k][pc0[j]]]]

\* a melt that stacks the records row by row instead of column by column
meltRowMajor(frame, id_vars) ==
    LET pc0 == PlotCols(frame, id_vars)
        ic  == IdCols(frame, id_vars)
        M   == Len(pc0)
    IN  [p \in 1..(Len(frame.rows) * M) |->
            LET k == ((p - 1) \div M) + 1
                j == ((p - 1) % M) + 1
            IN  [id     |-> [i \in 1..Len(ic) |-> frame.rows[k][ic[i]]],
                 Metric |-> frame.columns[pc0[j]],
                 Val    |-> frame.rows[k][pc0[j]]]]

\* pivot_df.melt(id_vars, value_vars, var_name="Metric", value_name="Val"):
\* the value columns are stacked one after the other
melt(frame, id_vars) ==
    LET pc0 == PlotCols(frame, id_vars)
        ic  == IdCols(frame, id_vars)
        N   == Len(frame.rows)
    IN  [p \in 1..(N * Len(pc0)) |->
            LET j == ((p - 1) \div N) + 1
                k == ((p - 1) % N) + 1
            IN  [id     |-> [i \in 1..Len(ic) |-> frame.rows[k][ic[i]]],
                 Metric |-> frame.columns[pc0[j]],
                 Val    |-> frame.rows[k][pc0[j]]]]

\* a grouping by all of id_vars (the whole row key), one sum per pivoted row
GroupSumByRowKey(melted) ==
    LET ks == GroupOrder({melted[p].id : p \in 1..Len(melted)})
        tot(k) == SumSeq([p \in 1..Len(melted) |->
                            IF melted[p].id = k THEN melted[p].Val ELSE 0])
    IN  [i \in 1..Len(ks) |-> [x |-> ks[i][1], Val |-> tot(ks[i])]]

\* melted.groupby(main_x)["Val"].sum().reset_index(), main_x = row_cols[0]
GroupSumByMainX(melted) ==
    LET xs == GroupOrder({<<melted[p].id[1]>> : p \in 1..Len(melted)})
        tot(x) == SumSeq([p \in 1..Len(melted) |->
                            IF melted[p].id[1] = x THEN melted[p].Val ELSE 0])
    IN  [i \in 1..Len(xs) |-> [x |-> xs[i][1], Val |-> tot(xs[i][1])]]

NoKpi == [total |-> 0, n |-> 0, max |-> NaN]

\* total_val, avg_val (as total over n) and max_val of melted["Val"]
Kpi(melted) ==
    LET vals == [p \in 1..Len(melted) |-> melted[p].Val]
    IN  [total |-> SumSeq(vals), n |-> Len(vals),
         max   |-> IF vals = <<>> THEN NaN ELSE MaxOf(vals)]

ChartTypes == {"Grouped Bar", "Line", "Pie", "Bar", "Stacked Bar", "Area", "Donut", "KPI Card"}

\* the data handed to the figure of the chosen chart type
ChartData(chart_type, melted) ==
    IF chart_type = "KPI Card" THEN <<>>
    ELSE IF chart_type \in {"Bar", "Pie", "Donut"} THEN GroupSumByMainX(melted)
    ELSE [p \in 1..Len(melted) |-> [x |-> melted[p].id[1], Val |-> melted[p].Val]]

\* --------------------------------------------------------- summary augmenter
SNo == <<"S.No">>

GrandTotalLabel == <<"Grand Total">>

Blank == <<>>

\* col.split("_")[-1] if "_" in str(col) else col
CleanName(col) == IF Len(col) > 1 THEN <<col[Len(col)]>> ELSE col

\* pivot_df.columns = [...]: the columns of pivot_df are renamed in place
CleanColumns(frame) ==
    [frame EXCEPT !.columns = [j \in 1..Len(frame.columns) |-> CleanName(frame.columns[j])]]

\* pivot_display = pivot_df.copy(); pivot_display.insert(0, "S.No", range(1, n + 1))
WithRowNumbers(frame) ==
    [columns |-> <<SNo>> \o frame.columns,
     kinds   |-> <<"number">> \o frame.kinds,
     rows    |-> [i \in 1..Len(frame.rows) |-> <<i>> \o frame.rows[i]]]

\* select_dtypes(include=np.number).columns.tolist() with the first "S.No"
\* removed: the names of the numeric value columns
NumericCols(disp) ==
    LET nums  == SelectSeq(Indices(Len(disp.columns)), LAMBDA j : disp.kinds[j] = "number")
        names == [i \in 1..Len(nums) |-> disp.columns[nums[i]]]
        first == IF Contains(names, SNo)
                 THEN CHOOSE i \in 1..Len(names) :
                        names[i] = SNo /\ \A h \in 1..(i - 1) : names[h] # SNo
                 ELSE 0
    IN  [i \in 1..(Len(names) - (IF first = 0 THEN 0 ELSE 1)) |->
            IF first # 0 /\ i >= first THEN names[i + 1] ELSE names[i]]

\* the positions pivot_display[numeric_cols] selects: every column carrying a
\* listed name, once per listing
RECURSIVE SelectedPositions(_, _)
SelectedPositions(columns, names) ==
    IF names = <<>> THEN <<>>
    ELSE SelectSeq(Indices(Len(columns)), LAMBDA j : columns[j] = Head(names))
         \o SelectedPositions(columns, Tail(names))

ColumnSum(rows, j) == SumSeq([i \in 1..Len(rows) |-> rows[i][j]])

\* grand_total = pivot_display[numeric_cols].sum().to_dict(): a name listed
\* several times keeps the sum of the last selected column
GrandTotalOf(disp, name) ==
    LET pos == SelectedPositions(disp.columns, NumericCols(disp))
        last == CHOOSE q \in 1..Len(pos) :
                    /\ disp.columns[pos[q]] = name
                    /\ \A h \in (q + 1)..Len(pos) : disp.columns[pos[h]] # name
    IN  ColumnSum(disp.rows, pos[last])

\* the row appended by pd.concat
GrandTotalRow(disp) ==
    [j \in 1..Len(disp.columns) |->
        IF Contains(NumericCols(disp), disp.columns[j]) THEN GrandTotalOf(disp, disp.columns[j])
        ELSE IF disp.columns[j] = SNo THEN Blank
        ELSE GrandTotalLabel]

\* a row total over numeric_cols[1:], the first value column left out
RowTotalSkipsFirst(disp, row) ==
    LET all == SelectedPositions(disp.columns, NumericCols(disp))
        pos == SubSeq(all, 2, Len(all))
    IN  SumSeq([q \in 1..Len(pos) |-> row[pos[q]]])

\* pivot_display[numeric_cols].sum(axis=1) for one row
RowTotal(disp, row) ==
    LET pos == SelectedPositions(disp.columns, NumericCols(disp))
    IN  SumSeq([q \in 1..Len(pos) |-> row[pos[q]]])

\* pd.concat of a frame with itself plus one row needs unique column names
\* in the frame (InvalidIndexError otherwise)
UniqueColumns(columns) ==
    \A i, j \in 1..Len(columns) : columns[i] = columns[j] => i = j

\* the displayed table: numbered rows, the grand-total row, the grand-total
\* column
Augment(frame) ==
    LET disp == WithRowNumbers(frame)
        all  == Append(disp.rows, GrandTotalRow(disp))
    IN  [columns |-> Append(disp.columns, GrandTotalLabel),
         kinds   |-> [j \in 1..(Len(disp.kinds) + 1) |->
                        IF j = 1 THEN "object"
                        ELSE IF j = Len(disp.kinds) + 1 THEN "number"
                        ELSE disp.kinds[j]],
         rows    |-> [i \in 1..Len(all) |-> Append(all[i], RowTotal(disp, all[i]))]]

\* ------------------------------------------------------------- filter engine
\* options = df[col].dropna().unique().tolist()
Options(rows, col) == {rows[i][ColIdx(col)] : i \in 1..Len(rows)} \ {NA}

\* df_filtered[df_filtered[col].isin(selected)]
IsIn(rows, col, sel) == SelectSeq(rows, LAMBDA r : r[ColIdx(col)] \in sel)

\* a loop that filters the base table anew for every column: the last
\* selection wins (df[df[col].isin(selected)])
RECURSIVE ApplyFiltersLastWins(_, _, _)
ApplyFiltersLastWins(rows, cols, sel) ==
    IF cols = <<>> THEN rows
    ELSE LET rest == ApplyFiltersLastWins(rows, Tail(cols), Tail(sel))
         IN  IF \A i \in 1..Len(Tail(sel)) : Tail(sel)[i] = {}
             THEN (IF Head(sel) # {} THEN IsIn(rows, Head(cols), Head(sel)) ELSE rows)
             ELSE rest

\* a loop without the "if selected" test: an empty selection keeps no row
RECURSIVE ApplyFiltersNoGuard(_, _, _)
ApplyFiltersNoGuard(rows, cols, sel) ==
    IF cols = <<>> THEN rows
    ELSE ApplyFiltersNoGuard(IsIn(rows, Head(cols), Head(sel)), Tail(cols), Tail(sel))

\* the loop over filter_cols: a column with an empty selection is skipped
RECURSIVE ApplyFilters(_, _, _)
ApplyFilters(rows, cols, sel) ==
    IF cols = <<>> THEN rows
    ELSE ApplyFilters(IF Head(sel) # {} THEN IsIn(rows, Head(cols), Head(sel)) ELSE rows,
                      Tail(cols), Tail(sel))

\* ------------------------------------------------------------ widget inputs
Region == <<"region">>

SubRegion == <<"sub", "region">>

Sales == <<"sales">>

NetSales == <<"net", "sales">>

Qty == <<"qty">>

RowChoices == {<<>>, <<Region>>, <<Region, SubRegion>>}

ColChoices == {<<>>, <<SubRegion>>}

ValChoices == {<<>>, <<Sales>>, <<Sales, NetSales>>, <<Sales, Qty>>}

AggFuncs == {"sum", "mean", "count", "max", "min"}

FilterChoices == {<<>>, <<Region, SubRegion>>}

EmptyFrame == [columns |-> <<>>, kinds |-> <<>>, rows |-> <<>>]

\* ---------------------------------------------------------------------- state
VARIABLES pc, input_method, pasted_data, uploaded_file, df, row_cols, col_cols, val_cols, agg_func,
          filter_cols, selected, df_filtered, pivot_df, chart_type, melted,
          chart, kpi, pivot_display, message

\* the values of the input widgets
inputs == <<input_method, pasted_data, uploaded_file>>

vars == <<pc, input_method, pasted_data, uploaded_file, df, row_cols, col_cols, val_cols, agg_func,
          filter_cols, selected, df_filtered, pivot_df, chart_type, melted,
          chart, kpi, pivot_display, message>>

Fresh ==
    /\ pc = "start"
    /\ df = <<>>
    /\ row_cols = <<>> /\ col_cols = <<>> /\ val_cols = <<>> /\ agg_func = "sum"
    /\ filter_cols = <<>> /\ selected = <<>>
    /\ df_filtered = <<>>
    /\ pivot_df = EmptyFrame
    /\ chart_type = "Grouped Bar" /\ melted = <<>> /\ chart = <<>> /\ kpi = NoKpi
    /\ pivot_display = EmptyFrame
    /\ message = "none"

Init ==
    /\ \/ input_method = "Upload File" /\ pasted_data = NoText /\ uploaded_file \in Files
       \/ input_method = "Paste Data" /\ uploaded_file = NoFile /\ pasted_data \in Texts(1)
    /\ Fresh

\* the upload branch: no file stops the pass, a file is loaded and deduplicated
Load ==
    /\ pc = "start"
    /\ input_method = "Upload File"
    /\ uploaded_file.present
    /\ df' = drop_duplicates(uploaded_file.rows)
    /\ pc' = "loaded"
    /\ UNCHANGED <<inputs, row_cols, col_cols, val_cols, agg_func, filter_cols,
                   selected, df_filtered, pivot_df, chart_type, melted, chart, kpi,
                   pivot_display, message>>

NoInput ==
    /\ pc = "start"
    /\ input_method = "Upload File"
    /\ ~uploaded_file.present
    /\ pc' = "stopped"
    /\ message' = "Please upload a file."
    /\ UNCHANGED <<inputs, df, row_cols, col_cols, val_cols, agg_func, filter_cols,
                   selected, df_filtered, pivot_df, chart_type, melted, chart, kpi,
                   pivot_display>>

\* the paste branch: the text is parsed and deduplicated
LoadPaste ==
    /\ pc = "start"
    /\ input_method = "Paste Data"
    /\ ~pasted_data.blank
    /\ ~ParsePasted(pasted_data).raised
    /\ df' = drop_duplicates(ParsePasted(pasted_data).rows)
    /\ pc' = "loaded"
    /\ message' = "Dataset Loaded Successfully"
    /\ UNCHANGED <<inputs, row_cols, col_cols, val_cols, agg_func, filter_cols,
                   selected, df_filtered, pivot_df, chart_type, melted, chart, kpi,
                   pivot_display>>

\* except Exception: st.error("Invalid pasted data format."); st.stop()
PasteError ==
    /\ pc = "start"
    /\ input_method = "Paste Data"
    /\ ~pasted_data.blank
    /\ ParsePasted(pasted_data).raised
    /\ pc' = "stopped"
    /\ message' = "Invalid pasted data format."
    /\ UNCHANGED <<inputs, df, row_cols, col_cols, val_cols, agg_func, filter_cols,
                   selected, df_filtered, pivot_df, chart_type, melted, chart, kpi,
                   pivot_display>>

\* else: st.info("Please paste data."); st.stop()
PasteEmpty ==
    /\ pc = "start"
    /\ input_method = "Paste Data"
    /\ pasted_data.blank
    /\ pc' = "stopped"
    /\ message' = "Please paste data."
    /\ UNCHANGED <<inputs, df, row_cols, col_cols, val_cols, agg_func, filter_cols,
                   selected, df_filtered, pivot_df, chart_type, melted, chart, kpi,
                   pivot_display>>

\* the four pivot widgets
PivotConfig ==
    /\ pc = "loaded"
    /\ \E rc \in RowChoices, cc \in ColChoices, vc \in ValChoices, ag \in AggFuncs :
          /\ row_cols' = rc /\ col_cols' = cc /\ val_cols' = vc /\ agg_func' = ag
    /\ pc' = "configured"
    /\ UNCHANGED <<inputs, df, filter_cols, selected, df_filtered, pivot_df,
                   chart_type, melted, chart, kpi, pivot_display, message>>

\* the filter widgets and the filter loop
Filter ==
    /\ pc = "configured"
    /\ \E fc \in FilterChoices :
         \E sel \in [1..Len(fc) -> SUBSET (Options(df, Region) \cup Options(df, SubRegion))] :
          /\ \A i \in 1..Len(fc) : sel[i] \subseteq Options(df, fc[i])
          /\ filter_cols' = fc
          /\ selected' = sel
          /\ df_filtered' = ApplyFilters(df, fc, sel)
    /\ pc' = "filtered"
    /\ UNCHANGED <<inputs, df, row_cols, col_cols, val_cols, agg_func, pivot_df,
                   chart_type, melted, chart, kpi, pivot_display, message>>

\* if not row_cols or not val_cols: st.warning(...); st.stop()
Reject ==
    /\ pc = "filtered"
    /\ row_cols = <<>> \/ val_cols = <<>>
    /\ pc' = "stopped"
    /\ message' = "Define 'Rows' and 'Metrics' to visualize data."
    /\ UNCHANGED <<inputs, df, row_cols, col_cols, val_cols, agg_func, filter_cols,
                   selected, df_filtered, pivot_df, chart_type, melted, chart, kpi,
                   pivot_display>>

\* a field chosen both as a row and as a column field is selected twice by
\* data[to_filter]; groupby then raises "Grouper for ... not 1-dimensional"
PivotRaises(index, columns) == \E i \in 1..Len(index) : Contains(columns, index[i])

\* a pivot step that runs without the test for empty rows or metrics
PivotUnguarded ==
    /\ pc = "filtered"
    /\ ~PivotRaises(row_cols, col_cols)
    /\ pivot_df' = pivot_table(df_filtered, row_cols, col_cols, val_cols, agg_func)
    /\ pc' = "pivoted"
    /\ UNCHANGED <<inputs, df, row_cols, col_cols, val_cols, agg_func, filter_cols,
                   selected, df_filtered, chart_type, melted, chart, kpi, pivot_display,
                   message>>

Pivot ==
    /\ pc = "filtered"
    /\ row_cols # <<>> /\ val_cols # <<>>
    /\ ~PivotRaises(row_cols, col_cols)
    /\ pivot_df' = pivot_table(df_filtered, row_cols, col_cols, val_cols, agg_func)
    /\ pc' = "pivoted"
    /\ UNCHANGED <<inputs, df, row_cols, col_cols, val_cols, agg_func, filter_cols,
                   selected, df_filtered, chart_type, melted, chart, kpi, pivot_display,
                   message>>

\* except Exception as e: st.error(...); st.stop()
PivotError ==
    /\ pc = "filtered"
    /\ row_cols # <<>> /\ val_cols # <<>>
    /\ PivotRaises(row_cols, col_cols)
    /\ pc' = "stopped"
    /\ message' = "Error building pivot"
    /\ UNCHANGED <<inputs, df, row_cols, col_cols, val_cols, agg_func, filter_cols,
                   selected, df_filtered, pivot_df, chart_type, melted, chart, kpi,
                   pivot_display>>

\* the chart tab
Viz ==
    /\ pc = "pivoted"
    /\ \E ct \in ChartTypes :
          /\ chart_type' = ct
          /\ melted' = melt(pivot_df, row_cols)
          /\ kpi' = IF ct = "KPI Card" THEN Kpi(melt(pivot_df, row_cols)) ELSE NoKpi
          /\ chart' = ChartData(ct, melt(pivot_df, row_cols))
    /\ pc' = "viz"
    /\ UNCHANGED <<inputs, df, row_cols, col_cols, val_cols, agg_func, filter_cols,
                   selected, df_filtered, pivot_df, pivot_display, message>>

\* the data tab: rename the columns of pivot_df, then build the displayed table
DataTab ==
    /\ pc = "viz"
    /\ UniqueColumns(CleanColumns(pivot_df).columns)
    /\ pivot_df' = CleanColumns(pivot_df)
    /\ pivot_display' = Augment(CleanColumns(pivot_df))
    /\ pc' = "done"
    /\ UNCHANGED <<inputs, df, row_cols, col_cols, val_cols, agg_func, filter_cols,
                   selected, df_filtered, chart_type, melted, chart, kpi, message>>

\* pd.concat raises on the renamed frame: the pass ends with an exception and
\* pivot_display is left as it was before the concat
DataTabError ==
    /\ pc = "viz"
    /\ ~UniqueColumns(CleanColumns(pivot_df).columns)
    /\ pivot_df' = CleanColumns(pivot_df)
    /\ pivot_display' = WithRowNumbers(CleanColumns(pivot_df))
    /\ pc' = "crashed"
    /\ message' = "InvalidIndexError"
    /\ UNCHANGED <<inputs, df, row_cols, col_cols, val_cols, agg_func, filter_cols,
                   selected, df_filtered, chart_type, melted, chart, kpi>>

\* any interaction reruns the script from the top; the uploader keeps its file
Rerun ==
    /\ pc \in {"stopped", "done", "crashed"}
    /\ UNCHANGED inputs
    /\ pc' = "start"
    /\ df' = <<>>
    /\ row_cols' = <<>> /\ col_cols' = <<>> /\ val_cols' = <<>> /\ agg_func' = "sum"
    /\ filter_cols' = <<>> /\ selected' = <<>>
    /\ df_filtered' = <<>>
    /\ pivot_df' = EmptyFrame
    /\ chart_type' = "Grouped Bar" /\ melted' = <<>> /\ chart' = <<>> /\ kpi' = NoKpi
    /\ pivot_display' = EmptyFrame
    /\ message' = "none"

Next ==
    \/ Load \/ NoInput \/ LoadPaste \/ PasteError \/ PasteEmpty \/ PivotConfig \/ Filter \/ Reject \/ Pivot \/ PivotError
    \/ Viz \/ DataTab \/ DataTabError \/ Rerun

Spec == Init /\ [][Next]_vars

\* ------------------------------------------------------------ the load stage
\* The load stage alone, over uploaded files and pasted texts of up to
\* MaxLoadRows rows.
LoadFiles == {NoFile} \cup {[rows |-> r, present |-> TRUE] : r \in SeqsUpTo(RowPool, MaxLoadRows)}

InitLoad ==
    /\ \/ input_method = "Upload File" /\ pasted_data = NoText /\ uploaded_file \in LoadFiles
       \/ input_method = "Paste Data" /\ uploaded_file = NoFile /\ pasted_data \in Texts(MaxLoadRows)
    /\ Fresh

NextLoad == Load \/ NoInput \/ LoadPaste \/ PasteError \/ PasteEmpty

SpecLoad == InitLoad /\ [][NextLoad]_vars

\* ===================================================================== claims
\* the pivot of this pass has been computed (its rows are not changed later)
Pivoted == pc \in {"pivoted", "viz", "done", "crashed"}

\* the row key of data row i of pivot_df
PivotKey(i) == SubSeq(pivot_df.rows[i], 1, Len(row_cols))

\* the position in df_filtered of the first row with the given row key
FirstSeen(k) == CHOOSE i \in 1..Len(df_filtered) :
                    /\ KeyOf(df_filtered[i], row_cols) = k
                    /\ \A h \in 1..(i - 1) : KeyOf(df_filtered[h], row_cols) # k

\* C1: the number of data rows of the pivoted table equals the number of
\* distinct rowFields tuples of the filtered table, tuples with a missing
\* row-field value included.
C1_RowCountIsDistinctTuples ==
    Pivoted =>
        Len(pivot_df.rows) =
            Cardinality({KeyOf(df_filtered[i], row_cols) : i \in 1..Len(df_filtered)})

\* C2 (as claimed): the data rows of the pivoted table are in first-seen
\* order of their rowFields tuples in the filtered table.
C2_FirstSeenOrder ==
    Pivoted =>
        \A i, j \in 1..Len(pivot_df.rows) :
            i < j => FirstSeen(PivotKey(i)) < FirstSeen(PivotKey(j))

\* C2 (amended): the data rows of the pivoted table are in strictly ascending
\* order of their rowFields tuples (field by field, string order).
C2_SortedKeyOrder ==
    Pivoted =>
        \A i, j \in 1..Len(pivot_df.rows) :
            i < j => TupleLess(PivotKey(i), PivotKey(j))

\* C2 witness: a pivot of two row groups whose first-seen order is not the
\* sorted order.
C2_Witness ==
    /\ Pivoted
    /\ Len(pivot_df.rows) >= 2
    /\ FirstSeen(PivotKey(2)) < FirstSeen(PivotKey(1))

\* the pivot has been computed and its columns still carry the pivot's names
PivotNamed == pc \in {"pivoted", "viz"}

\* positions of the value columns of pivot_df
ValuePositions == (Len(row_cols) + 1)..Len(pivot_df.columns)

\* the column-field tuples of the filtered table
ColKeys == {KeyOf(df_filtered[h], col_cols) : h \in 1..Len(df_filtered)}

\* the filtered rows that fall in the cell (row key rk, column key ck)
RowsInCell(rk, ck) ==
    {h \in 1..Len(df_filtered) :
        /\ KeyOf(df_filtered[h], row_cols) = rk
        /\ KeyOf(df_filtered[h], col_cols) = ck}

\* those of them whose value field v is not missing
ValuedRowsInCell(rk, ck, v) ==
    {h \in RowsInCell(rk, ck) : df_filtered[h][ColIdx(v)] # NaN}

DataTabRan == pc \in {"done", "crashed"}

\* positions of the numeric columns of the displayed table, S.No excluded
DisplayValuePositions ==
    {j \in 1..Len(pivot_display.columns) :
        pivot_display.kinds[j] = "number" /\ pivot_display.columns[j] # SNo}

\* the sum of all value cells of all data rows of the pivoted table
PivotCellTotal ==
    SumSeq([i \in 1..Len(pivot_df.rows) |->
              SumSeq([q \in 1..(Len(pivot_df.columns) - Len(row_cols)) |->
                        pivot_df.rows[i][Len(row_cols) + q]])])

\* C4: for every pivot spec the displayed table ends with a grand-total row
\* whose cell in every numeric value column is the sum of that column over the
\* data rows.
C4_GrandTotalRowSumsColumns ==
    DataTabRan =>
        LET n == Len(pivot_df.rows)
        IN  /\ Len(pivot_display.rows) = n + 1
            /\ \A j \in DisplayValuePositions :
                  pivot_display.rows[n + 1][j] =
                      SumSeq([i \in 1..n |-> pivot_display.rows[i][j]])

\* C5: when the grand-total row and the grand-total column are both added,
\* their intersection cell is the sum of all value cells of all data rows of
\* the pivoted table.
C5_IntersectionIsCellTotal ==
    pc = "done" =>
        LET last == pivot_display.rows[Len(pivot_display.rows)]
        IN  /\ pivot_display.columns[Len(pivot_display.columns)] = GrandTotalLabel
            /\ last[Len(last)] = PivotCellTotal

\* C5 witness: a displayed table with two data rows and two value columns,
\* all four cells positive.
C5_Witness ==
    /\ pc = "done"
    /\ Len(pivot_df.rows) = 2
    /\ Len(pivot_df.columns) = Len(row_cols) + 2
    /\ \A i \in 1..2, q \in 1..2 : pivot_df.rows[i][Len(row_cols) + q] > 0

\* a table or a chart of this pass has been rendered
Rendered == pc \in {"viz", "done"}

NothingProduced ==
    /\ pivot_df = EmptyFrame
    /\ pivot_display = EmptyFrame
    /\ melted = <<>> /\ chart = <<>> /\ kpi = NoKpi

\* a file was uploaded, or text was pasted and parsed
InputLoaded ==
    \/ input_method = "Upload File" /\ uploaded_file.present
    \/ /\ input_method = "Paste Data"
       /\ ~pasted_data.blank
       /\ ~ParsePasted(pasted_data).raised

\* C6: with empty rowFields or empty valueFields the pass produces no pivoted
\* table, no displayed table and no chart data; a table or chart is rendered
\* only in a pass with loaded input, non-empty rowFields and valueFields and
\* no pivot error.
C6_RejectedBeforePivot ==
    /\ (row_cols = <<>> \/ val_cols = <<>>) => (NothingProduced /\ ~Pivoted)
    /\ Rendered =>
          /\ InputLoaded
          /\ row_cols # <<>> /\ val_cols # <<>>
          /\ message \in {"none", "Dataset Loaded Successfully"}
          /\ ~PivotRaises(row_cols, col_cols)

\* C6 witness: a pass over a non-empty filtered table stopped by the missing
\* metrics, and one stopped by the missing rows.
C6_Witness ==
    /\ pc = "stopped"
    /\ message = "Define 'Rows' and 'Metrics' to visualize data."
    /\ df_filtered # <<>>
    /\ row_cols # <<>>
    /\ val_cols = <<>>

\* C7: when the filters leave zero rows the pivot has zero data rows and the
\* displayed table is exactly the grand-total row, all numeric cells 0.
C7_EmptyFilterGivesOnlyGrandTotal ==
    (DataTabRan /\ df # <<>> /\ df_filtered = <<>>) =>
        /\ pivot_df.rows = <<>>
        /\ Len(pivot_display.rows) = 1
        /\ \A j \in DisplayValuePositions : pivot_display.rows[1][j] = 0

\* the filter loop of this pass has run
Filtered ==
    \/ pc \in {"filtered", "pivoted", "viz", "done", "crashed"}
    \/ pc = "stopped" /\ message # "Please upload a file."

\* a row passes when it is in the selection of every filter column that has one
PassesFilters(r) ==
    \A i \in 1..Len(filter_cols) :
        selected[i] # {} => r[ColIdx(filter_cols[i])] \in selected[i]

\* C8: the filtered table is the base table restricted to the rows that are,
\* in every filter column with a non-empty selection, a member of the
\* selection; order and columns are kept.
C8_FilterKeepsMatchingRows ==
    Filtered => df_filtered = SelectSeq(df, PassesFilters)

\* C8 witness: two filter columns with a selection each, one row kept and one
\* row removed.
C8_Witness ==
    /\ Filtered
    /\ Len(filter_cols) = 2
    /\ selected[1] # {} /\ selected[2] # {}
    /\ df_filtered # <<>>
    /\ Len(df_filtered) < Len(df)

\* C9: with no filter column, or with empty selections only, the filtered
\* table is the base table.
C9_EmptyFilterIsIdentity ==
    (Filtered /\ \A i \in 1..Len(filter_cols) : selected[i] = {}) => df_filtered = df

\* C9 witness: filter columns chosen, nothing selected, a base table of two
\* rows.
C9_Witness ==
    /\ Filtered
    /\ filter_cols # <<>>
    /\ \A i \in 1..Len(filter_cols) : selected[i] = {}
    /\ Len(df) >= 2
    /\ df_filtered = df

\* C10: the long form has one record per (pivoted row, value column), and its
\* values summed by Metric are the column sums of the pivoted table.
C10_LongFormKeepsColumnSums ==
    pc = "viz" =>
        /\ Len(melted) = Len(pivot_df.rows) * Cardinality(ValuePositions)
        /\ \A j \in ValuePositions :
              SumSeq([p \in 1..Len(melted) |->
                        IF melted[p].Metric = pivot_df.columns[j] THEN melted[p].Val ELSE 0])
                  = ColumnSum(pivot_df.rows, j)
        /\ \A i \in 1..Len(pivot_df.rows), j \in ValuePositions :
              Cardinality({p \in 1..Len(melted) :
                              /\ melted[p].id = PivotKey(i)
                              /\ melted[p].Metric = pivot_df.columns[j]
                              /\ melted[p].Val = pivot_df.rows[i][j]}) = 1

\* C10 witness: a long form of two rows by two value columns with different
\* column sums.
C10_Witness ==
    /\ pc = "viz"
    /\ Len(pivot_df.rows) = 2
    /\ Cardinality(ValuePositions) = 2
    /\ Len(melted) = 4
    /\ ColumnSum(pivot_df.rows, Len(row_cols) + 1) # ColumnSum(pivot_df.rows, Len(row_cols) + 2)

\* the rows the load stage read, from the file or from the pasted text
InputRows ==
    IF input_method = "Upload File" THEN uploaded_file.rows ELSE pasted_data.rows

\* the position in the input of the first occurrence of row r
FirstOccurrence(r) == CHOOSE i \in 1..Len(InputRows) :
    InputRows[i] = r /\ \A j \in 1..(i - 1) : InputRows[j] # r

\* C11: after loading, from an uploaded file or from pasted text, no two rows
\* of the table are equal, every distinct row of the input appears in it
\* exactly once, and the rows stand in the order of their first occurrences
\* in the input.
C11_LoadDropsDuplicates ==
    pc = "loaded" =>
        /\ \A i, j \in 1..Len(df) : df[i] = df[j] => i = j
        /\ Range(df) = Range(InputRows)
        /\ \A r \in Range(InputRows) : Cardinality({i \in 1..Len(df) : df[i] = r}) = 1
        /\ \A i, j \in 1..Len(df) :
              i < j => FirstOccurrence(df[i]) < FirstOccurrence(df[j])

\* C11 witness: pasted text whose first row is repeated after a different
\* row, loaded into a table of two rows.
C11_Witness ==
    /\ pc = "loaded"
    /\ input_method = "Paste Data"
    /\ Len(InputRows) = 3
    /\ InputRows[1] = InputRows[3]
    /\ InputRows[1] # InputRows[2]
    /\ Len(df) = 2

\* C12: the pivoted table and the displayed table have pairwise distinct
\* column names at every point of the pass, cross-tabulated pivots with
\* several value fields and row fields with an underscore in their names
\* included.
C12_UniqueColumnNames ==
    /\ Pivoted => UniqueColumns(pivot_df.columns)
    /\ DataTabRan => UniqueColumns(pivot_display.columns)

SingleSeries == pc = "viz" /\ chart_type \in {"Bar", "Pie", "Donut"}

\* the values of the first row field in the pivoted table
MainXValues == {pivot_df.rows[i][1] : i \in 1..Len(pivot_df.rows)}

\* the sum of the value cells of data row i of the pivoted table
PivotRowTotal(i) ==
    SumSeq([q \in 1..(Len(pivot_df.columns) - Len(row_cols)) |->
              pivot_df.rows[i][Len(row_cols) + q]])

\* C13 as stated: a Bar, Pie or Donut chart has one value per row key, as
\* many values as the pivoted table has data rows, and the value of a row
\* key is the sum of that row's value cells.
C13_OneValuePerRowKey ==
    SingleSeries =>
        /\ Len(chart) = Len(pivot_df.rows)
        /\ \A i \in 1..Len(pivot_df.rows) :
              chart[i].x = pivot_df.rows[i][1] /\ chart[i].Val = PivotRowTotal(i)

\* C13 amended: a Bar, Pie or Donut chart has one value per distinct value of
\* the first row field, in ascending order of that value, and it is the sum
\* of the value cells of all pivoted rows with that first row-field value.
C13_OneValuePerMainX ==
    SingleSeries =>
        /\ {chart[i].x : i \in 1..Len(chart)} = MainXValues
        /\ Len(chart) = Cardinality(MainXValues)
        /\ \A i, j \in 1..Len(chart) : i < j => StrLess(chart[i].x, chart[j].x)
        /\ \A i \in 1..Len(chart) :
              chart[i].Val = SumSeq([h \in 1..Len(pivot_df.rows) |->
                                      IF pivot_df.rows[h][1] = chart[i].x
                                      THEN PivotRowTotal(h) ELSE 0])

\* C13 witness: two row fields, two pivoted rows with the same first
\* row-field value and non-zero totals, one chart value.
C13_Witness ==
    /\ SingleSeries
    /\ Len(row_cols) = 2
    /\ Len(pivot_df.rows) = 2
    /\ pivot_df.rows[1][1] = pivot_df.rows[2][1]
    /\ PivotRowTotal(1) > 0 /\ PivotRowTotal(2) > 0
    /\ Len(chart) = 1

\* the long-form record of data row k and value column j of the pivoted table
RecordOf(k, j) ==
    [id     |-> PivotKey(k),
     Metric |-> pivot_df.columns[Len(row_cols) + j],
     Val    |-> pivot_df.rows[k][Len(row_cols) + j]]

\* C14 as stated: the long form is in row-major order; counting rows k and
\* value columns j from 0, record k*M+j is (row k, column j) for M value
\* columns.
C14_RowMajor ==
    pc = "viz" =>
        LET M == Cardinality(ValuePositions)
        IN  \A k \in 1..Len(pivot_df.rows), j \in 1..M :
                melted[(k - 1) * M + j] = RecordOf(k, j)

\* C14 amended: the long form is in column-major order; counting rows k and
\* value columns j from 0, record j*N+k is (row k, column j) for N data rows.
C14_ColumnMajor ==
    pc = "viz" =>
        LET N == Len(pivot_df.rows)
        IN  /\ Len(melted) = N * Cardinality(ValuePositions)
            /\ \A k \in 1..N, j \in 1..Cardinality(ValuePositions) :
                    melted[(j - 1) * N + k] = RecordOf(k, j)

\* C14 witness: a long form of two rows by two value columns whose second
\* record is the second row's, not the second column's.
C14_Witness ==
    /\ pc = "viz"
    /\ Len(pivot_df.rows) = 2
    /\ Cardinality(ValuePositions) = 2
    /\ melted[2] = RecordOf(2, 1)
    /\ melted[2] # RecordOf(1, 2)

\* C15: within one pass no stage changes a table it was given: once loaded
\* the base table stays as it is, once filtered the filtered table stays as
\* it is, and once pivoted the pivoted table keeps its column names and
\* cell values through chart projection and augmenting.
C15_NoStageMutatesItsInput ==
    [][pc' # "start" =>
          /\ pc \notin {"start"} => df' = df
          /\ pc \in {"filtered", "pivoted", "viz"} => df_filtered' = df_filtered
          /\ pc \in {"pivoted", "viz"} => pivot_df' = pivot_df]_vars

====
